---- MODULE Spec2Model ----
(***************************************************************************)
(* Model of the two notebooks of ai-science-training-series:               *)
(*   01_machineLearning/00_make_slimmed_dataset_Hai_modified.ipynb         *)
(*     (notebook 1: read a CSV, filter rows, select columns, write a CSV)  *)
(*   the MNIST "MLP by hand" notebook (src/unnamed/part_000)               *)
(*     (notebook 2: linear regression trained by gradient descent, then    *)
(*      the definitions of sigmoid, softmax and the layered models)        *)
(* A notebook is run top to bottom: each code cell is one action and the   *)
(* program counter names the next cell to run.                             *)
(***************************************************************************)
EXTENDS Integers, Sequences, FiniteSets, TLC

VARIABLES
    \* ---- notebook 1 ----
    pc1,            \* next cell of notebook 1
    fs,             \* the working directory: file name -> file
    df,             \* DataFrame read from realestate_data.csv
    df2,            \* df filtered on OverallCond
    slim_df,        \* df2 restricted to two columns
    io_log,         \* history: the file operations done so far, in order
    \* ---- notebook 2 ----
    pc2,            \* next cell of notebook 2
    x_train,        \* images (3-D after load, 2-D after the reshape cell)
    x_test,         \* the test images, preprocessed like x_train
    y_train,        \* labels
    x_train_batch,  \* x_train[:batch_size, :]
    y_train_batch,  \* y_train[:batch_size, numpy.newaxis]
    W,              \* the notebook-level weight matrix
    learning_rate,  \* the notebook-level learning rate
    losses,         \* numpy.zeros(num_iters,), filled by the loop
    i,              \* loop variable of the training loop
    globals2,       \* names bound in notebook 2's namespace
    calls,          \* history: calls made by the training loop, in order
    returns,        \* history: what each of these calls returned and how
                    \*          it left the arrays it was given
    \* ---- one call of a function of notebook 2 on arbitrary arguments ----
    call,           \* the function called and its arguments
    ret             \* what it returned

vars1 == <<pc1, fs, df, df2, slim_df, io_log>>
vars2 == <<pc2, x_train, x_test, y_train, x_train_batch, y_train_batch, W,
           learning_rate, losses, i, globals2, calls, returns>>
varsF == <<call, ret>>
vars  == <<vars1, vars2, varsF>>

(***************************************************************************)
(* Bounds of the model.                                                    *)
(***************************************************************************)
MaxRows == 2            \* rows of realestate_data.csv

(***************************************************************************)
(* Sequence helpers.                                                       *)
(***************************************************************************)
RECURSIVE SelectIdx(_, _)
\* the positions k of s, in increasing order, where keep[k] holds
SelectIdx(keep, k) ==
    IF k > Len(keep) THEN << >>
    ELSE (IF keep[k] THEN <<k>> ELSE << >>) \o SelectIdx(keep, k + 1)

IndexOf(s, v) == CHOOSE k \in 1..Len(s) : s[k] = v

(***************************************************************************)
(* NOTEBOOK 1: make the slimmed dataset.                                   *)
(***************************************************************************)
SourceFile == "realestate_data.csv"
SlimFile   == "slimmed_realestate_data.csv"
Files      == {SourceFile, SlimFile}

\* The columns of the Kaggle file the notebook uses (of the 81 it holds),
\* in the file's order.
SourceColumns == <<"Id", "OverallCond", "GrLivArea", "SalePrice">>

CondValues  == {4, 5, 6, 9}     \* OverallCond ranges over 1..9 in the data
AreaValues  == {50, 60}
PriceValues == {100, 200}

NoFile  == [exists |-> FALSE, header |-> << >>, lines |-> << >>]
StaleFile == [exists |-> TRUE, header |-> <<"old">>, lines |-> <<<<0>>>>]

\* An unbound DataFrame variable (a real frame has at least one column).
NoFrame == [columns |-> << >>, index |-> << >>, rows |-> << >>]

\* Every source file of at most MaxRows data lines; Id is the line number.
SourceFilesOfLen(n) ==
    { [exists |-> TRUE, header |-> SourceColumns,
       lines |-> [k \in 1..n |-> <<k, c[k], a[k], p[k]>>]] :
         c \in [1..n -> CondValues], a \in [1..n -> AreaValues],
         p \in [1..n -> PriceValues] }

SourceFiles == UNION { SourceFilesOfLen(n) : n \in 0..MaxRows }

\* pd.read_csv(path): the header gives the columns, the lines the rows, and
\* the index is the default RangeIndex 0..n-1.
read_csv(file) ==
    [columns |-> file.header,
     index   |-> [k \in 1..Len(file.lines) |-> k - 1],
     rows    |-> file.lines]

\* frame[name]: one column as a sequence, aligned with the rows.
Column(frame, name) ==
    [k \in 1..Len(frame.rows) |-> frame.rows[k][IndexOf(frame.columns, name)]]

\* the filter with the rating 5 kept
CondMaskAtLeast5(frame) ==
    [k \in 1..Len(frame.rows) |-> Column(frame, "OverallCond")[k] >= 5]

\* df['OverallCond'] > 5: the boolean mask of the filter cell.
CondMask(frame) ==
    [k \in 1..Len(frame.rows) |-> Column(frame, "OverallCond")[k] > 5]

\* frame[mask]: the rows where the mask holds, with their index labels.
BoolIndex(frame, mask) ==
    LET keep == SelectIdx(mask, 1) IN
    [columns |-> frame.columns,
     index   |-> [k \in 1..Len(keep) |-> frame.index[keep[k]]],
     rows    |-> [k \in 1..Len(keep) |-> frame.rows[keep[k]]]]

\* frame[[c1, c2, ...]]: the named columns, in the order asked.
SelectColumns(frame, cols) ==
    [columns |-> cols,
     index   |-> frame.index,
     rows    |-> [k \in 1..Len(frame.rows) |->
                    [j \in 1..Len(cols) |->
                        frame.rows[k][IndexOf(frame.columns, cols[j])]]]]

SlimColumns == <<"SalePrice", "GrLivArea">>

\* frame.to_csv(path) with pandas' defaults (index=True, header=True): the
\* header line is an empty index label followed by the column names, and
\* every line starts with the row's index label.
to_csv(frame) ==
    [exists |-> TRUE,
     header |-> <<"">> \o frame.columns,
     lines  |-> [k \in 1..Len(frame.rows) |->
                    <<frame.index[k]>> \o frame.rows[k]]]

\* the output written over the input
to_csv_path_source == SourceFile

\* the path the last code cell but one writes to
to_csv_path == SlimFile

Cells1 == <<"import", "read_csv", "crosstab", "filter", "show_df",
            "select", "to_csv", "plot", "done">>

NextCell1(c) == Cells1[IndexOf(Cells1, c) + 1]

Init1 ==
    /\ pc1 = "import"
    /\ fs \in { [f \in Files |-> IF f = SourceFile THEN src ELSE out] :
                   src \in SourceFiles, out \in {NoFile, StaleFile} }
    /\ df = NoFrame /\ df2 = NoFrame /\ slim_df = NoFrame
    /\ io_log = << >>

\* import pandas as pd
Import1 ==
    /\ pc1 = "import"
    /\ pc1' = NextCell1(pc1)
    /\ UNCHANGED <<fs, df, df2, slim_df, io_log, vars2, varsF>>

\* df = pd.read_csv('realestate_data.csv'); print(df.columns)
ReadCsv ==
    /\ pc1 = "read_csv"
    /\ fs[SourceFile].exists
    /\ df' = read_csv(fs[SourceFile])
    /\ io_log' = Append(io_log, [op |-> "read", file |-> SourceFile])
    /\ pc1' = NextCell1(pc1)
    /\ UNCHANGED <<fs, df2, slim_df, vars2, varsF>>

\* pd.crosstab(index=df['OverallCond'], columns='count'): display only
Crosstab ==
    /\ pc1 = "crosstab"
    /\ pc1' = NextCell1(pc1)
    /\ UNCHANGED <<fs, df, df2, slim_df, io_log, vars2, varsF>>

\* df2 = df[df['OverallCond'] > 5]
Filter ==
    /\ pc1 = "filter"
    /\ df2' = BoolIndex(df, CondMask(df))
    /\ pc1' = NextCell1(pc1)
    /\ UNCHANGED <<fs, df, slim_df, io_log, vars2, varsF>>

\* df: display only
ShowDf ==
    /\ pc1 = "show_df"
    /\ pc1' = NextCell1(pc1)
    /\ UNCHANGED <<fs, df, df2, slim_df, io_log, vars2, varsF>>

\* slim_df = df2[['SalePrice','GrLivArea']]
Select ==
    /\ pc1 = "select"
    /\ slim_df' = SelectColumns(df2, SlimColumns)
    /\ pc1' = NextCell1(pc1)
    /\ UNCHANGED <<fs, df, df2, io_log, vars2, varsF>>

\* slim_df.to_csv('slimmed_realestate_data.csv')
ToCsv ==
    /\ pc1 = "to_csv"
    /\ fs' = [fs EXCEPT ![to_csv_path] = to_csv(slim_df)]
    /\ io_log' = Append(io_log, [op |-> "write", file |-> to_csv_path])
    /\ pc1' = NextCell1(pc1)
    /\ UNCHANGED <<df, df2, slim_df, vars2, varsF>>

\* slim_df.plot(x='SalePrice', y='GrLivArea', style='.'): display only
Plot1 ==
    /\ pc1 = "plot"
    /\ pc1' = NextCell1(pc1)
    /\ UNCHANGED <<fs, df, df2, slim_df, io_log, vars2, varsF>>

Next1 ==
    \/ Import1 \/ ReadCsv \/ Crosstab \/ Filter \/ ShowDf
    \/ Select \/ ToCsv \/ Plot1

(***************************************************************************)
(* NUMBERS.  A Python/numpy float is modelled as an exact fraction <<n, d>>*)
(* in lowest terms with d > 0, or one of the IEEE specials, written with a *)
(* zero denominator: Inf = <<1, 0>>, -Inf = <<-1, 0>>, NaN = <<0, 0>>.     *)
(* Arithmetic on finite values is exact; a value stored by the training    *)
(* loop is rounded to the grid of 1/FloatScale (the stand-in for float64   *)
(* rounding that keeps the fractions of a long run representable).         *)
(***************************************************************************)
FloatScale == 1000

Abs(a) == IF a < 0 THEN -a ELSE a

RECURSIVE GCD(_, _)
GCD(a, b) == IF b = 0 THEN a ELSE GCD(b, a % b)

\* the fraction n/d (d # 0) in lowest terms
Q(n, d) ==
    LET g == GCD(Abs(n), Abs(d))
        s == IF d < 0 THEN -1 ELSE 1
    IN  <<s * (n \div g), s * (d \div g)>>

Int2F(n) == <<n, 1>>
Inf    == <<1, 0>>
NegInf == <<-1, 0>>
NaN    == <<0, 0>>
Zero   == <<0, 1>>
One    == <<1, 1>>

IsFinite(a) == a[2] # 0
IsNaN(a)    == a = NaN
Sign(a)     == IF a[1] > 0 THEN 1 ELSE IF a[1] < 0 THEN -1 ELSE 0

FNeg(a) == <<-a[1], a[2]>>

FAdd(a, b) ==
    IF IsNaN(a) \/ IsNaN(b) THEN NaN
    ELSE IF ~IsFinite(a) THEN (IF ~IsFinite(b) /\ b # a THEN NaN ELSE a)
    ELSE IF ~IsFinite(b) THEN b
    ELSE LET l == (a[2] \div GCD(a[2], b[2])) * b[2]
         IN  Q(a[1] * (l \div a[2]) + b[1] * (l \div b[2]), l)

FSub(a, b) == FAdd(a, FNeg(b))

FMul(a, b) ==
    IF IsNaN(a) \/ IsNaN(b) THEN NaN
    ELSE IF ~IsFinite(a) \/ ~IsFinite(b)
         THEN (IF Sign(a) * Sign(b) = 0 THEN NaN
               ELSE <<Sign(a) * Sign(b), 0>>)
    ELSE LET g1 == GCD(Abs(a[1]), b[2])
             g2 == GCD(Abs(b[1]), a[2])
         IN  <<(a[1] \div g1) * (b[1] \div g2), (a[2] \div g2) * (b[2] \div g1)>>

FDiv(a, b) ==
    IF IsNaN(a) \/ IsNaN(b) THEN NaN
    ELSE IF ~IsFinite(b) THEN (IF ~IsFinite(a) THEN NaN ELSE Zero)
    ELSE IF ~IsFinite(a) THEN (IF Sign(b) < 0 THEN FNeg(a) ELSE a)
    ELSE IF b[1] = 0 THEN <<Sign(a), 0>>       \* x/0 = +-inf, 0/0 = nan
    ELSE FMul(a, Q(b[2], b[1]))

FLess(a, b) == a[1] * b[2] < b[1] * a[2]       \* finite a, b

\* x ** 2
Square(a) == FMul(a, a)

\* the nearest multiple of 1/FloatScale (ties upward)
Fl(a) ==
    IF ~IsFinite(a) THEN a
    ELSE LET g   == GCD(a[2], FloatScale)
             num == a[1] * (FloatScale \div g)
             den == a[2] \div g
         IN  Q((2 * num + den) \div (2 * den), FloatScale)

(***************************************************************************)
(* numpy.exp.  In float64, exp(x) overflows to inf for x > 709 and         *)
(* underflows to 0 for x < -745 (x an integer).  In between, the model     *)
(* evaluates exp on integer arguments only, as the power of a rational     *)
(* close to e; nothing checked below depends on more than exp being        *)
(* positive and increasing there.                                          *)
(***************************************************************************)
ExpMaxArg == 709
ExpMinArg == -745
EulerE == Q(19, 7)

RECURSIVE Pow(_, _)
Pow(a, k) == IF k = 0 THEN One ELSE FMul(a, Pow(a, k - 1))

\* no value: evaluating it is an error
NotModelled == CHOOSE v \in {} : TRUE

exp(x) ==
    IF IsNaN(x) THEN NaN
    ELSE IF x = Inf THEN Inf
    ELSE IF x = NegInf THEN Zero
    ELSE IF FLess(Int2F(ExpMaxArg), x) THEN Inf
    ELSE IF FLess(x, Int2F(ExpMinArg)) THEN Zero
    ELSE IF x[2] # 1 THEN NotModelled
    ELSE IF x[1] >= 0 THEN Pow(EulerE, x[1])
    ELSE FDiv(One, Pow(EulerE, -x[1]))

(***************************************************************************)
(* numpy arrays.  A 2-D array is a sequence of rows, a 1-D array a         *)
(* sequence of numbers.                                                    *)
(***************************************************************************)
\* an array holds its elements: each one is computed once, when the array is
\* made, not each time it is read
Arr(s) == SubSeq(s, 1, Len(s))

NRows(A) == Len(A)
NCols(A) == IF Len(A) = 0 THEN 0 ELSE Len(A[1])

RECURSIVE SumSeq(_)
SumSeq(s) == IF s = << >> THEN Zero ELSE FAdd(Head(s), SumSeq(Tail(s)))

\* numpy.dot(A, B) of 2-D arrays
dot(A, B) ==
    Arr([r \in 1..NRows(A) |->
        Arr([c \in 1..NCols(B) |->
            SumSeq(Arr([k \in 1..NCols(A) |-> FMul(A[r][k], B[k][c])]))])])

\* A.transpose()
transpose(A) ==
    Arr([c \in 1..NCols(A) |-> Arr([r \in 1..NRows(A) |-> A[r][c]])])

Max(a, b) == IF a >= b THEN a ELSE b

\* numpy's broadcasting of 2-D shapes in an elementwise operation: an axis
\* of length 1 is stretched to the other operand's length, so its only
\* element is read at every position
BRow(A, r) == IF NRows(A) = 1 THEN 1 ELSE r
BCol(A, c) == IF NCols(A) = 1 THEN 1 ELSE c

\* A - B, elementwise with broadcasting
ArrSub(A, B) ==
    Arr([r \in 1..Max(NRows(A), NRows(B)) |->
        Arr([c \in 1..Max(NCols(A), NCols(B)) |->
            FSub(A[BRow(A, r)][BCol(A, c)], B[BRow(B, r)][BCol(B, c)])])])

\* A + B, elementwise with broadcasting
ArrAdd(A, B) ==
    Arr([r \in 1..Max(NRows(A), NRows(B)) |->
        Arr([c \in 1..Max(NCols(A), NCols(B)) |->
            FAdd(A[BRow(A, r)][BCol(A, c)], B[BRow(B, r)][BCol(B, c)])])])

\* a 1-D array taking part in a 2-D operation is a single row
AsRow(v) == <<v>>

\* scalar * array
Scale(s, A) ==
    Arr([r \in 1..NRows(A) |-> Arr([c \in 1..NCols(A) |-> FMul(s, A[r][c])])])

\* A ** 2, elementwise
SquareAll(A) ==
    Arr([r \in 1..NRows(A) |-> Arr([c \in 1..NCols(A) |-> Square(A[r][c])])])

\* numpy.exp(A), elementwise
ExpAll(A) ==
    Arr([r \in 1..NRows(A) |-> Arr([c \in 1..NCols(A) |-> exp(A[r][c])])])

\* A / s, elementwise
DivAll(A, s) ==
    Arr([r \in 1..NRows(A) |-> Arr([c \in 1..NCols(A) |-> FDiv(A[r][c], s)])])

\* an array as stored: every entry rounded
FlAll(A) ==
    Arr([r \in 1..NRows(A) |-> Arr([c \in 1..NCols(A) |-> Fl(A[r][c])])])

\* numpy.mean(A): the mean over all entries
mean(A) ==
    FDiv(SumSeq(Arr([r \in 1..NRows(A) |-> SumSeq(A[r])])),
         Int2F(NRows(A) * NCols(A)))

\* numpy.sum(A, axis=1): one sum per row
sum_axis1(A) == Arr([r \in 1..NRows(A) |-> SumSeq(A[r])])

(***************************************************************************)
(* NOTEBOOK 2: the functions it defines.                                   *)
(***************************************************************************)
\* def linear_model(W, input_images): return numpy.dot(input_images, W)
linear_model(W_, input_images) == dot(input_images, W_)

\* the loss with the square left out:
\*     MSE = numpy.mean(true_labels - predicted_label)
evaluate_unsquared(W_, input_images, true_labels) ==
    LET predicted_label == linear_model(W_, input_images)
    IN  mean(ArrSub(true_labels, predicted_label))

\* def evaluate(W, input_images, true_labels)
evaluate(W_, input_images, true_labels) ==
    LET predicted_label == linear_model(W_, input_images)
    IN  mean(SquareAll(ArrSub(true_labels, predicted_label)))

\* the gradient with the difference the other way round
\* (true_labels - label_predictions)
dJW_dW_sign_flipped(input_images, true_labels, current_W) ==
    LET n == NRows(input_images)
        label_predictions == linear_model(current_W, input_images)
    IN  Scale(FDiv(Int2F(2), Int2F(n)),
              dot(transpose(input_images),
                  ArrSub(true_labels, label_predictions)))

\* the gradient computed inside learn:
\* dJW_dW = (2./n) * numpy.dot(input_images.transpose(),
\*                             label_predictions - true_labels)
dJW_dW(input_images, true_labels, current_W) ==
    LET n == NRows(input_images)
        label_predictions == linear_model(current_W, input_images)
    IN  Scale(FDiv(Int2F(2), Int2F(n)),
              dot(transpose(input_images),
                  ArrSub(label_predictions, true_labels)))

\* def learn(input_images, true_labels, current_W, learning_rate=0.000001)
learn(input_images, true_labels, current_W, learning_rate_) ==
    LET new_W == ArrSub(current_W,
                        Scale(learning_rate_,
                              dJW_dW(input_images, true_labels, current_W)))
    IN  new_W

\* the default of learn's learning_rate parameter: 0.000001
learn_default_learning_rate == Q(1, 1000000)

\* def sigmoid(x): z = 1/(1 + numpy.exp(-x)), elementwise
sigmoid1(x) == FDiv(One, FAdd(One, exp(FNeg(x))))
sigmoid(x) ==
    Arr([r \in 1..NRows(x) |-> Arr([c \in 1..NCols(x) |-> sigmoid1(x[r][c])])])

\* def classification_model(A, b, input_images), the sigmoid version:
\*     return sigmoid(numpy.dot(input_images, W) + b)
\* The body names W, which is no parameter: Python resolves it to the
\* notebook-level W at the time of the call, passed here as global_W.
classification_model_sigmoid(A, b, input_images, global_W) ==
    sigmoid(ArrAdd(dot(input_images, global_W), AsRow(b)))

\* def softmax(x)
softmax(x) ==
    LET e == ExpAll(x)
        normalization == sum_axis1(e)
        z == Arr([r \in 1..NRows(x) |->
                Arr([c \in 1..NCols(x) |-> FDiv(e[r][c], normalization[r])])])
    IN  z

\* def classification_model(W, b, input_images), the softmax version
classification_model(W_, b, input_images) ==
    softmax(ArrAdd(dot(input_images, W_), AsRow(b)))

\* def nonlinear_model(W1, W2, b1, b2, input_images)
nonlinear_model_2(W1, W2, b1, b2, input_images) ==
    sigmoid(ArrAdd(dot(sigmoid(ArrAdd(dot(input_images, W1), AsRow(b1))), W2),
                   AsRow(b2)))

\* def nonlinear_model(A1, A2, A3, b1, b2, b3, input_images)
nonlinear_model(A1, A2, A3, b1, b2, b3, input_images) ==
    sigmoid(ArrAdd(dot(nonlinear_model_2(A1, A2, b1, b2, input_images), A3),
                   AsRow(b3)))

(***************************************************************************)
(* NOTEBOOK 2: the run, cell by cell.                                      *)
(***************************************************************************)
ImgSide    == 2     \* images are ImgSide x ImgSide (28 x 28 in MNIST)
batch_size == 2     \* batch_size = 100 in the notebook
num_iters  == 3     \* num_iters = 5000 in the notebook
nb_classes == 10

\* the training set holds more images than one batch (60000 in MNIST)
TrainSize == batch_size + 1

\* grey levels of a uint8 pixel: black, a grey in between, white
PixelLevels == <<0, 51, 255>>

\* uint8 images: all white, and diagonal stripes of the three levels
Images ==
    { [r \in 1..ImgSide |-> [c \in 1..ImgSide |-> Int2F(255)]],
      [r \in 1..ImgSide |-> [c \in 1..ImgSide |->
            Int2F(PixelLevels[1 + ((r + c) % 3)])]] }

\* a sample of test sets: one image (10000 in MNIST)
TestSets == { <<img>> : img \in Images }

LabelValues == {Int2F(0), Int2F(3)}     \* digits 0..9 in MNIST

\* rows x cols arrays over the two values of vals: every entry the same
\* value, or the two values alternating
Patterns(rows, cols, vals) ==
    { [r \in 1..rows |-> [c \in 1..cols |-> vals[k]]] : k \in 1..2 }
    \cup { [r \in 1..rows |-> [c \in 1..cols |-> vals[1 + ((r + c) % 2)]]] }

\* values of .01 * numpy.random.rand(): in [0, 0.01)
RandValues == <<Zero, Q(1, 200)>>

\* a sample of the draws of .01 * numpy.random.rand(rows, cols)
RandMatrices(rows, cols) == Patterns(rows, cols, RandValues)

\* x.reshape(x.shape[0], numpy.prod(x[0,:,:].shape)): row-major flattening
reshape(x) ==
    Arr([k \in 1..Len(x) |->
        Arr([j \in 1..(Len(x[1]) * Len(x[1][1])) |->
            x[k][1 + ((j - 1) \div Len(x[1][1]))][1 + ((j - 1) % Len(x[1][1]))]])])

\* x /= 256. on a 3-D array
div256(x) ==
    Arr([k \in 1..Len(x) |-> DivAll(x[k], Int2F(256))])

\* x /= 255. on a 3-D array
div255(x) ==
    Arr([k \in 1..Len(x) |-> DivAll(x[k], Int2F(255))])

Min(a, b) == IF a <= b THEN a ELSE b

\* the last n rows instead of the first
LastRows(a, n) == SubSeq(a, Len(a) - Min(n, Len(a)) + 1, Len(a))

\* a[:n] on the first axis
FirstRows(a, n) == SubSeq(a, 1, Min(n, Len(a)))

\* y[:n], numpy.newaxis left out: the first n labels as an (n,) array,
\* which takes part in a 2-D operation as a single row
FirstLabelsFlat(y, n) == AsRow(SubSeq(y, 1, Min(n, Len(y))))

\* y[:n, numpy.newaxis]: the first n labels as an (n, 1) array
FirstLabelsColumn(y, n) == Arr([k \in 1..Min(n, Len(y)) |-> <<y[k]>>])

\* numpy.zeros(n,)
zeros(n) == [k \in 1..n |-> Zero]

\* range(0, num_iters + 1): one iteration too many
LoopContinuesInclusive(cur, n) == cur + 1 <= n

\* for i in range(0, num_iters): is there a next value after i?
\* (i = -1 before the first iteration)
LoopContinues(cur, n) == cur + 1 < n

\* the call learn(x_train_batch, y_train_batch, W, learning_rate / (i + 1)):
\* a step that shrinks from one iteration to the next
LearnCallDecayingRate(xb, yb, w, rate) ==
    [fn |-> "learn", input_images |-> xb, true_labels |-> yb,
     current_W |-> w, learning_rate |-> FDiv(rate, Int2F(i + 2))]

\* the arguments of the call learn(x_train_batch, y_train_batch, W, learning_rate)
LearnCall(xb, yb, w, rate) ==
    [fn |-> "learn", input_images |-> xb, true_labels |-> yb,
     current_W |-> w, learning_rate |-> rate]

\* the arguments of the call evaluate(W, x_train_batch, y_train_batch)
EvaluateCall(w, xb, yb) ==
    [fn |-> "evaluate", input_images |-> xb, true_labels |-> yb,
     current_W |-> w, learning_rate |-> NaN]

\* learn with the update written in place:
\*     current_W -= learning_rate * dJW_dW; return current_W
learn_return_in_place(input_images, true_labels, current_W, learning_rate_) ==
    [fn |-> "learn",
     value |-> learn(input_images, true_labels, current_W, learning_rate_),
     value_is |-> "current_W",
     input_images |-> input_images, true_labels |-> true_labels,
     current_W |-> learn(input_images, true_labels, current_W, learning_rate_)]

\* what a call of learn leaves behind: the value it returns and the contents
\* of the arrays it was given.  Arguments are passed by reference; the body
\* only reads them (no augmented or item assignment), and
\* new_W = current_W - (...) builds a new array.
learn_return(input_images, true_labels, current_W, learning_rate_) ==
    [fn |-> "learn",
     value |-> learn(input_images, true_labels, current_W, learning_rate_),
     value_is |-> "new array",
     input_images |-> input_images, true_labels |-> true_labels,
     current_W |-> current_W]

\* what a call of evaluate leaves behind: numpy.mean returns a scalar, and
\* the body only reads W, input_images and true_labels
evaluate_return(W_, input_images, true_labels) ==
    [fn |-> "evaluate",
     value |-> evaluate(W_, input_images, true_labels),
     value_is |-> "scalar",
     input_images |-> input_images, true_labels |-> true_labels,
     current_W |-> W_]

\* x[:n, :] is a view: the first rows of base are the rows of the view,
\* whatever was written through it
RowsThroughView(base, view) ==
    view \o SubSeq(base, Len(view) + 1, Len(base))

\* y[:n, numpy.newaxis] is a view as well
LabelsThroughView(base, view) ==
    [k \in 1..Len(base) |-> IF k <= Len(view) THEN view[k][1] ELSE base[k]]

Cells2 == <<"imports", "load", "normalize", "reshape", "labels",
            "show_digits", "def_linear_model", "def_evaluate", "def_learn",
            "batch", "train", "loop", "show_linear", "def_sigmoid",
            "plot_sigmoid", "onehot", "show_onehot", "def_softmax",
            "init_softmax_model", "predict", "print_predicted",
            "def_nonlinear_2", "def_nonlinear_3", "done">>

NextCell2(c) == Cells2[IndexOf(Cells2, c) + 1]

Init2 ==
    /\ pc2 = "imports"
    /\ x_train = << >> /\ x_test = << >> /\ y_train = << >>
    /\ x_train_batch = << >> /\ y_train_batch = << >>
    /\ W = << >>
    /\ learning_rate = NaN
    /\ losses = << >>
    /\ i = -1
    /\ globals2 = {}
    /\ calls = << >>
    /\ returns = << >>

\* a cell that only binds names (a def, an import, a displayed value)
Bind(cell, names) ==
    /\ pc2 = cell
    /\ pc2' = NextCell2(cell)
    /\ globals2' = globals2 \cup names
    /\ UNCHANGED <<x_train, x_test, y_train, x_train_batch, y_train_batch, W,
                   learning_rate, losses, i, calls, returns, vars1, varsF>>

\* import tensorflow as tf; import numpy; import matplotlib.pyplot as plt
Imports2 == Bind("imports", {"tf", "numpy", "plt"})

\* (x_train, y_train), (x_test, y_test) = tf.keras.datasets.mnist.load_data()
Load ==
    /\ pc2 = "load"
    /\ x_train' \in [1..TrainSize -> Images]
    /\ x_test' \in TestSets
    /\ y_train' \in [1..TrainSize -> LabelValues]
    /\ globals2' = globals2 \cup {"x_train", "y_train", "x_test", "y_test"}
    /\ pc2' = NextCell2(pc2)
    /\ UNCHANGED <<x_train_batch, y_train_batch, W, learning_rate, losses, i,
                   calls, returns, vars1, varsF>>

\* x_train = x_train.astype(numpy.float32); x_train /= 255.
\* x_test  = x_test.astype(numpy.float32);  x_test  /= 255.
Normalize ==
    /\ pc2 = "normalize"
    /\ x_train' = div255(x_train)
    /\ x_test' = div255(x_test)
    /\ pc2' = NextCell2(pc2)
    /\ UNCHANGED <<y_train, x_train_batch, y_train_batch, W, learning_rate,
                   losses, i, globals2, calls, returns, vars1, varsF>>

\* x_train = x_train.reshape(x_train.shape[0], numpy.prod(x_train[0,:,:].shape))
\* x_test = x_test.reshape(x_test.shape[0], numpy.prod(x_test[0,:,:].shape))
Reshape ==
    /\ pc2 = "reshape"
    /\ x_train' = reshape(x_train)
    /\ x_test' = reshape(x_test)
    /\ pc2' = NextCell2(pc2)
    /\ UNCHANGED <<y_train, x_train_batch, y_train_batch, W, learning_rate,
                   losses, i, globals2, calls, returns, vars1, varsF>>

\* y_train = y_train.astype(numpy.int32): the digits keep their values
Labels == Bind("labels", {})

\* the first 10 training digits: display only
ShowDigits == Bind("show_digits", {"pltsize"})

DefLinearModel == Bind("def_linear_model", {"linear_model"})
DefEvaluate    == Bind("def_evaluate", {"evaluate"})
DefLearn       == Bind("def_learn", {"learn"})

\* batch_size = 100
\* x_train_batch = x_train[:batch_size, :]
\* y_train_batch = y_train[:batch_size, numpy.newaxis]
Batch ==
    /\ pc2 = "batch"
    /\ x_train_batch' = FirstRows(x_train, batch_size)
    /\ y_train_batch' = FirstLabelsColumn(y_train, batch_size)
    /\ globals2' = globals2 \cup {"batch_size", "x_train_batch", "y_train_batch"}
    /\ pc2' = NextCell2(pc2)
    /\ UNCHANGED <<x_train, x_test, y_train, W, learning_rate, losses, i, calls, returns, vars1, varsF>>

\* num_features = x_train.shape[1]
\* W = .01 * numpy.random.rand(num_features, 1)
\* learning_rate = 0.0005; num_iters = 5000; losses = numpy.zeros(num_iters,)
TrainInit ==
    /\ pc2 = "train"
    /\ W' \in RandMatrices(NCols(x_train), 1)
    /\ learning_rate' = Q(5, 10000)
    /\ losses' = zeros(num_iters)
    /\ globals2' = globals2 \cup {"num_features", "W", "learning_rate",
                                  "num_iters", "losses"}
    /\ pc2' = NextCell2(pc2)
    /\ UNCHANGED <<x_train, x_test, y_train, x_train_batch, y_train_batch, i, calls, returns, vars1, varsF>>

\* one iteration of the loop:
\*     W = learn(x_train_batch, y_train_batch, W, learning_rate)
\*     losses[i] = evaluate(W, x_train_batch, y_train_batch)
LoopStep ==
    /\ pc2 = "loop"
    /\ LoopContinues(i, num_iters)
    /\ LET lc == LearnCall(x_train_batch, y_train_batch, W, learning_rate) IN
       \E lr \in {[learn_return(lc.input_images, lc.true_labels,
                                lc.current_W, lc.learning_rate)
                       EXCEPT !.value = FlAll(@)]} :
       LET ec == EvaluateCall(lr.value, lr.input_images, lr.true_labels) IN
       \E er \in {[evaluate_return(ec.current_W, ec.input_images,
                                   ec.true_labels)
                       EXCEPT !.value = Fl(@)]} :
           /\ i' = i + 1
           /\ W' = er.current_W
           /\ losses' = [losses EXCEPT ![i' + 1] = er.value]  \* losses[i], 0-based
           /\ x_train_batch' = er.input_images
           /\ y_train_batch' = er.true_labels
           /\ calls' = calls \o <<lc, ec>>
           /\ returns' = returns \o <<lr, er>>
    /\ x_train' = RowsThroughView(x_train, x_train_batch')
    /\ y_train' = LabelsThroughView(y_train, y_train_batch')
    /\ globals2' = globals2 \cup {"i"}
    /\ UNCHANGED <<pc2, x_test, learning_rate, vars1, varsF>>

\* the range is exhausted: plt.plot(losses)
LoopExit ==
    /\ pc2 = "loop"
    /\ ~LoopContinues(i, num_iters)
    /\ pc2' = NextCell2(pc2)
    /\ UNCHANGED <<x_train, x_test, y_train, x_train_batch, y_train_batch, W,
                   learning_rate, losses, i, globals2, calls, returns, vars1, varsF>>

\* predicted_labels = linear_model(W, x_train[:10,:]), shown over the digits
ShowLinear == Bind("show_linear", {"predicted_labels"})

\* def sigmoid(x); def classification_model(A, b, input_images)
DefSigmoid == Bind("def_sigmoid", {"sigmoid", "classification_model"})

\* x = numpy.arange(-10, 10, step=.1); plt.plot(x, sigmoid(x))
PlotSigmoid == Bind("plot_sigmoid", {"x"})

\* nb_classes = 10; y_train_onehot, y_test_onehot = to_categorical(...)
OneHot == Bind("onehot", {"nb_classes", "y_train_onehot", "y_test_onehot"})

ShowOneHot == Bind("show_onehot", {})

DefSoftmax == Bind("def_softmax", {"softmax"})

\* W = .01 * numpy.random.rand(num_features, 10)
\* b = .01 * numpy.random.rand(10,)
\* def classification_model(W, b, input_images)   (replaces the sigmoid one)
InitSoftmaxModel ==
    /\ pc2 = "init_softmax_model"
    /\ W' \in RandMatrices(NCols(x_train), nb_classes)
    /\ globals2' = globals2 \cup {"b", "classification_model"}
    /\ pc2' = NextCell2(pc2)
    /\ UNCHANGED <<x_train, x_test, y_train, x_train_batch, y_train_batch,
                   learning_rate, losses, i, calls, returns, vars1, varsF>>

\* predicted_labels = classification_model(W, b, x_train[:5,:])
Predict == Bind("predict", {"predicted_labels"})

\* print(predicted_labels[0,:]); print(sum(predicted_labels[0,:]))
PrintPredicted == Bind("print_predicted", {})

\* def nonlinear_model(W1, W2, b1, b2, input_images)
DefNonlinear2 == Bind("def_nonlinear_2", {"nonlinear_model"})

\* def nonlinear_model(A1, A2, A3, b1, b2, b3, input_images)
DefNonlinear3 == Bind("def_nonlinear_3", {"nonlinear_model"})

Next2 ==
    \/ Imports2 \/ Load \/ Normalize \/ Reshape \/ Labels \/ ShowDigits
    \/ DefLinearModel \/ DefEvaluate \/ DefLearn \/ Batch
    \/ TrainInit \/ LoopStep \/ LoopExit \/ ShowLinear
    \/ DefSigmoid \/ PlotSigmoid \/ OneHot \/ ShowOneHot \/ DefSoftmax
    \/ InitSoftmaxModel \/ Predict \/ PrintPredicted
    \/ DefNonlinear2 \/ DefNonlinear3

(***************************************************************************)
(* ONE CALL of a function of notebook 2, on arguments drawn from small     *)
(* sets: the functions as functions, whatever the notebook passes them.    *)
(* The initial state holds the call; the action returns from it.           *)
(***************************************************************************)
MaxExamples == 2        \* rows of input_images in one call
NumFeatures == 2        \* columns of input_images in one call
NumClasses  == 2        \* columns of softmax's argument

\* all rows x cols arrays with entries in vals
Arrays(rows, cols, vals) == [1..rows -> [1..cols -> vals]]

PixelValues  == {Zero, One}                     \* normalised pixels
WeightValues == <<Q(-1, 2), One>>
LabelPair    == <<Int2F(0), Int2F(3)>>
RateValues   == {Q(5, 10000), learn_default_learning_rate}
\* scores around the ends of exp's float64 range, and ordinary ones
ScoreValues  == {Int2F(-746), Zero, One, Int2F(710)}
SoftmaxRows  == {1, 2}
IntWeights   == <<Int2F(-1), One>>
IntPixels    == <<Zero, One>>
BiasValues   == {Zero, One}

NoCall == [fn |-> "none"]
Pending == << >>        \* ret before the call has returned

\* the calls learn(input_images, true_labels, current_W, learning_rate)
LearnCalls ==
    UNION { { LearnCall(X, y, w, rate) :
                X \in Arrays(n, NumFeatures, PixelValues),
                y \in Patterns(n, 1, LabelPair),
                w \in Patterns(NumFeatures, 1, WeightValues),
                rate \in RateValues } : n \in 1..MaxExamples }

\* the calls softmax(x)
SoftmaxCalls ==
    UNION { { [fn |-> "softmax", x |-> x] :
                x \in Arrays(n, NumClasses, ScoreValues) } : n \in SoftmaxRows }

\* the calls classification_model(A, b, input_images) of the sigmoid
\* version, made while the notebook-level W holds global_W
ClassificationCalls ==
    UNION { { [fn |-> "classification_model", A |-> A, b |-> b,
               input_images |-> X, global_W |-> global_W] :
                X \in Patterns(n, NumFeatures, IntPixels),
                A \in Patterns(NumFeatures, 1, IntWeights),
                global_W \in Patterns(NumFeatures, 1, IntWeights),
                b \in [1..1 -> BiasValues] } : n \in 1..MaxExamples }

\* new_W = learn(input_images, true_labels, current_W, learning_rate)
CallLearn ==
    /\ call.fn = "learn" /\ ret = Pending
    /\ ret' = learn(call.input_images, call.true_labels, call.current_W,
                    call.learning_rate)
    /\ UNCHANGED <<call, vars1, vars2>>

\* z = softmax(x)
CallSoftmax ==
    /\ call.fn = "softmax" /\ ret = Pending
    /\ ret' = softmax(call.x)
    /\ UNCHANGED <<call, vars1, vars2>>

\* classification_model(A, b, input_images), the sigmoid version
CallClassificationSigmoid ==
    /\ call.fn = "classification_model" /\ ret = Pending
    /\ ret' = classification_model_sigmoid(call.A, call.b, call.input_images,
                                           call.global_W)
    /\ UNCHANGED <<call, vars1, vars2>>

NextFn == CallLearn \/ CallSoftmax \/ CallClassificationSigmoid

(***************************************************************************)
(* Specifications.  Each notebook is its own program; a specification runs *)
(* one of them and leaves the other's variables at their initial values.   *)
(***************************************************************************)
Idle1 == pc1 = "import" /\ fs = [f \in Files |-> NoFile] /\ df = NoFrame
         /\ df2 = NoFrame /\ slim_df = NoFrame /\ io_log = << >>
IdleF == call = NoCall /\ ret = Pending

InitSlim  == Init2 /\ IdleF /\ Init1
InitTrain == Idle1 /\ IdleF /\ Init2
InitFn    ==
    /\ Idle1 /\ Init2
    /\ call \in LearnCalls \cup SoftmaxCalls \cup ClassificationCalls
    /\ ret = Pending

\* notebook 1, run top to bottom
SpecSlim == InitSlim /\ [][Next1]_vars

\* notebook 2, run top to bottom
SpecTrain == InitTrain /\ [][Next2]_vars

\* one call of one function of notebook 2
SpecFn == InitFn /\ [][NextFn]_vars

(***************************************************************************)
(* PROPERTIES of notebook 1 (checked under SpecSlim).                      *)
(***************************************************************************)
Past1(cell) == IndexOf(Cells1, pc1) > IndexOf(Cells1, cell)

CondCol  == IndexOf(SourceColumns, "OverallCond")
AreaCol  == IndexOf(SourceColumns, "GrLivArea")
PriceCol == IndexOf(SourceColumns, "SalePrice")

\* C1: once slim_df is made, its rows are exactly the rows of df whose
\* OverallCond is greater than 5: every row of slim_df is (SalePrice,
\* GrLivArea) of a row of df with OverallCond > 5, every such row of df
\* appears, and the rows come in df's order, each once (the index labels,
\* which are df's row numbers, increase strictly).
C1_SlimRowsAreFilteredRows ==
    Past1("select") =>
        /\ Len(slim_df.rows) = Len(slim_df.index)
        /\ \A k \in 1..Len(slim_df.index) :
              LET r == slim_df.index[k] + 1 IN
              /\ r \in 1..Len(df.rows)
              /\ df.rows[r][CondCol] > 5
              /\ slim_df.rows[k] = <<df.rows[r][PriceCol], df.rows[r][AreaCol]>>
        /\ \A k, m \in 1..Len(slim_df.index) :
              k < m => slim_df.index[k] < slim_df.index[m]
        /\ \A r \in 1..Len(df.rows) :
              df.rows[r][CondCol] > 5 =>
                  \E k \in 1..Len(slim_df.index) : slim_df.index[k] = r - 1

\* a run where a row with OverallCond = 5 was dropped and a later row kept
C1_Witness ==
    /\ pc1 = "done"
    /\ Len(df.rows) = 2
    /\ df.rows[1][CondCol] = 5
    /\ df.rows[2][CondCol] = 6
    /\ slim_df.index = <<1>>

\* C2: the file written to slimmed_realestate_data.csv has exactly the two
\* columns SalePrice and GrLivArea: its header names them and nothing
\* else, and every line holds two fields.
C2_FileHasTwoColumns ==
    Past1("to_csv") =>
        /\ fs[SlimFile].header = <<"SalePrice", "GrLivArea">>
        /\ \A k \in 1..Len(fs[SlimFile].lines) : Len(fs[SlimFile].lines[k]) = 2

\* C3: the steps happen in the order load, filter, select, write.  The file
\* operations so far are a prefix of <<read the source, write the slimmed
\* file>>; the slimmed file holds its initial content until it is written,
\* and is written only when df2 and slim_df have been made, with slim_df
\* as content; at the end it has been written exactly once; df is what the
\* source file holds, which is never written.
C3_LoadFilterSelectWrite ==
    LET Read  == [op |-> "read",  file |-> SourceFile]
        Write == [op |-> "write", file |-> SlimFile]
        written == Len(io_log) = 2
    IN  /\ io_log \in {<< >>, <<Read>>, <<Read, Write>>}
        /\ fs[SourceFile].exists /\ fs[SourceFile].header = SourceColumns
        /\ (df # NoFrame) = Past1("read_csv")
        /\ (df2 # NoFrame) = Past1("filter")
        /\ (slim_df # NoFrame) = Past1("select")
        /\ written = Past1("to_csv")
        /\ Past1("read_csv") =>
              /\ io_log[1] = Read
              /\ df.rows = fs[SourceFile].lines
        /\ Past1("filter") => df2.columns = SourceColumns
        /\ Past1("select") => slim_df.index = df2.index
        /\ ~written => fs[SlimFile] \in {NoFile, StaleFile}
        /\ written =>
              /\ fs[SlimFile].exists
              /\ Len(fs[SlimFile].lines) = Len(slim_df.rows)

\* the end of a run that replaced a stale slimmed file by a one-line one
C3_Witness ==
    /\ pc1 = "done"
    /\ Len(io_log) = 2
    /\ Len(fs[SlimFile].lines) = 1
    /\ Len(fs[SourceFile].lines) = 2

(***************************************************************************)
(* PROPERTIES of notebook 2's run (checked under SpecTrain).               *)
(***************************************************************************)
Past2(cell) == IndexOf(Cells2, pc2) > IndexOf(Cells2, cell)

\* the calls of fn made so far by the training loop
CallsOf(fn) == { k \in 1..Len(calls) : calls[k].fn = fn }

\* the names under which the notebook would hold the weights and biases of
\* nonlinear_model
MlpParameters == {"W1", "W2", "b1", "b2", "A1", "A2", "A3", "b3"}

\* C4: the notebook trains the multi-layer perceptron as well: when it has
\* run to the end, weights and biases for nonlinear_model exist in the
\* namespace and the gradient-descent steps made include steps on them.
C4_MlpIsTrained ==
    pc2 = "done" =>
        /\ MlpParameters \cap globals2 # {}
        /\ \E k \in 1..Len(calls) : calls[k].fn = "nonlinear_model"

\* C5: the training loop calls learn exactly num_iters times, once per
\* iteration i = 0..num_iters-1, and then stops: while the loop runs, i+1
\* calls of learn have been made (the k-th call of the loop is learn for
\* odd k, in iteration (k-1)/2); the loop takes another iteration exactly
\* while that count is below num_iters, whatever the losses are; after the
\* loop, the count is num_iters and i is num_iters - 1.
C5_LearnCalledNumItersTimes ==
    /\ Cardinality(CallsOf("learn")) = i + 1
    /\ \A k \in 1..Len(calls) : (calls[k].fn = "learn") = (k % 2 = 1)
    /\ Len(calls) = 2 * (i + 1)
    /\ i + 1 <= num_iters
    /\ ~Past2("train") => i = -1
    /\ pc2 = "loop" =>
          LoopContinues(i, num_iters) = (Cardinality(CallsOf("learn")) < num_iters)
    /\ Past2("loop") =>
          /\ Cardinality(CallsOf("learn")) = num_iters
          /\ i = num_iters - 1

\* the loop has just ended
C5_Witness ==
    /\ pc2 = "show_linear"
    /\ Cardinality(CallsOf("learn")) = num_iters

\* C6: the mini-batch is fixed for the whole training: from the batch cell
\* on, x_train_batch is the first batch_size rows of x_train and
\* y_train_batch the labels of those rows, one per row; every call of learn
\* and of evaluate made by the loop received exactly these two arrays.
C6_BatchIsFixed ==
    Past2("batch") =>
        /\ Len(x_train_batch) = batch_size
        /\ Len(y_train_batch) = batch_size
        /\ \A k \in 1..batch_size :
              /\ x_train_batch[k] = x_train[k]
              /\ y_train_batch[k] = <<y_train[k]>>
        /\ \A k \in 1..Len(calls) :
              /\ calls[k].input_images = x_train_batch
              /\ calls[k].true_labels = y_train_batch

\* after the last iteration, on a training set whose rows are not all alike
C6_Witness ==
    /\ Past2("loop")
    /\ Len(calls) = 2 * num_iters
    /\ Len(x_train) > batch_size
    /\ x_train[1] # x_train[Len(x_train)]
    /\ y_train[1] # y_train[Len(y_train)]

\* C8: the loop uses a constant step: every call of learn made by the loop
\* received the rate 0.0005 (5/10000), which is the value of learning_rate
\* from the training cell on, and never the default 0.000001 of learn's
\* parameter.
C8_ConstantLearningRate ==
    /\ Past2("train") => learning_rate = <<1, 2000>>
    /\ \A k \in CallsOf("learn") :
          /\ calls[k].learning_rate = <<1, 2000>>
          /\ calls[k].learning_rate # <<1, 1000000>>

\* all num_iters calls of learn made, and the weights moved
C8_Witness ==
    /\ Cardinality(CallsOf("learn")) = num_iters
    /\ pc2 = "loop"
    /\ calls[1].current_W # W

\* the pixels of a 3-D array of images, and of a 2-D array of flat images
PixelsOf3D(x) ==
    { x[k][r][c] : k \in 1..Len(x), r \in 1..ImgSide, c \in 1..ImgSide }
PixelsOf2D(x) ==
    { x[k][j] : k \in 1..Len(x), j \in 1..(ImgSide * ImgSide) }

InUnitInterval(v) == IsFinite(v) /\ ~FLess(v, Zero) /\ ~FLess(One, v)

\* x holds, image by image and pixel by pixel, the integer pixels of raw
\* over 255
NormalizedFrom(raw, x) ==
    /\ Len(x) = Len(raw)
    /\ \A k \in 1..Len(raw) : \A r, c \in 1..ImgSide :
          /\ raw[k][r][c][2] = 1 /\ raw[k][r][c][1] \in 0..255
          /\ x[k][r][c] = Q(raw[k][r][c][1], 255)
          /\ raw[k][r][c][1] = 0 => x[k][r][c] = <<0, 1>>
          /\ raw[k][r][c][1] = 255 => x[k][r][c] = <<1, 1>>

\* flat holds the images of x, as many as x has, each as one row of
\* ImgSide * ImgSide pixels, the rows of the image one after the other
FlattenedFrom(x, flat) ==
    /\ Len(flat) = Len(x)
    /\ \A k \in 1..Len(x) :
          /\ Len(flat[k]) = ImgSide * ImgSide
          /\ \A r, c \in 1..ImgSide :
                flat[k][(r - 1) * ImgSide + c] = x[k][r][c]

\* C11: preprocessing brings every pixel of x_train and x_test into 0..1.
\* The normalisation cell stores pixel/255 for the integer pixels 0..255 it
\* finds (0 becomes 0, 255 becomes 1); the reshape cell keeps the number
\* of images and every pixel value, image k becoming row k of 28*28 (here
\* ImgSide * ImgSide) pixels; and from the normalisation on, in every later
\* state of the run, every pixel of both arrays lies in 0..1.
C11_PixelsNormalisedAndKept ==
    [][ /\ pc2 = "normalize" =>
              /\ NormalizedFrom(x_train, x_train')
              /\ NormalizedFrom(x_test, x_test')
        /\ pc2 = "reshape" =>
              /\ FlattenedFrom(x_train, x_train')
              /\ FlattenedFrom(x_test, x_test')
        /\ pc2' = "reshape" =>
              \A v \in PixelsOf3D(x_train') \cup PixelsOf3D(x_test') :
                  InUnitInterval(v)
        /\ Past2("reshape")' =>
              \A v \in PixelsOf2D(x_train') \cup PixelsOf2D(x_test') :
                  InUnitInterval(v)
      ]_vars

\* after the training loop, both arrays are flat and hold black, grey and
\* white pixels: 0, 51/255 = 1/5 and 1
C11_Witness ==
    /\ Past2("loop")
    /\ Len(x_train) = TrainSize /\ Len(x_train[1]) = ImgSide * ImgSide
    /\ {<<0, 1>>, <<1, 5>>, <<1, 1>>} \subseteq PixelsOf2D(x_train)
    /\ {<<0, 1>>, <<1, 5>>, <<1, 1>>} \subseteq PixelsOf2D(x_test)

\* the mean over the examples of (label - prediction)^2 for the weights w,
\* written out as sums
MeanSquaredError(w, X, y) ==
    FDiv(SumSeq(Arr([r \in 1..Len(X) |->
            Square(FSub(y[r][1],
                        SumSeq(Arr([c \in 1..Len(w) |->
                                        FMul(X[r][c], w[c][1])]))))])),
         Int2F(Len(X)))

RECURSIVE LossesOfUpdatesFrom(_, _)
\* losses[k-1], ..., losses[i] (positions k..i+1 here) are the losses of
\* the weights after one, two, ... further updates of w, none negative
LossesOfUpdatesFrom(w, k) ==
    \/ k > i + 1
    \/ \E updated \in {FlAll(learn(x_train_batch, y_train_batch, w,
                                   learning_rate))} :
          /\ losses[k] = Fl(MeanSquaredError(updated, x_train_batch,
                                             y_train_batch))
          /\ IsFinite(losses[k])
          /\ ~FLess(losses[k], Zero)
          /\ LossesOfUpdatesFrom(updated, k + 1)

\* C12: the losses array during and after the training loop.  After
\* iteration i, for k = 0..i the entry losses[k] (position k+1 here) is the
\* loss of the weights after k+1 updates of the initial weights, so never
\* the loss of the initial weights themselves; the entries after i are
\* still 0; no recorded loss is negative.  Each entry is written once: a
\* step changes an entry only in the iteration that has its index, where it
\* was 0 before, and the index moves on by one with every iteration.
\* (The recorded values are recomputed at every point of the loop, the
\* point after its last iteration included; later no entry changes.)
C12_LossesFilledInOrder ==
    /\ [](Past2("train") =>
              /\ Len(losses) = num_iters
              /\ \A k \in (i + 2)..num_iters : losses[k] = Zero
              /\ (i >= 0 /\ pc2 = "loop") =>
                    LossesOfUpdatesFrom(calls[1].current_W, 1))
    /\ [][Past2("train") =>
              \A k \in 1..num_iters :
                  losses'[k] # losses[k] =>
                      /\ i' = i + 1
                      /\ k = i' + 1
                      /\ losses[k] = Zero]_vars

\* the loop has ended with every entry filled by a positive loss, the
\* losses went down, and the loss of the initial weights is none of them
C12_Witness ==
    /\ Past2("loop")
    /\ \A k \in 1..num_iters : FLess(Zero, losses[k])
    /\ FLess(losses[num_iters], losses[1])
    /\ \A k \in 1..num_iters :
          losses[k] # Fl(MeanSquaredError(calls[1].current_W,
                                          x_train_batch, y_train_batch))

\* A.shape of a 2-D array
Shape(A) == <<NRows(A), NCols(A)>>

\* C13: shapes in the linear training.  From the training cell until W is
\* rebound for the softmax model, W has shape (num_features, 1), where
\* num_features is the number of pixels of an image; the labels of the
\* batch have shape (batch_size, 1).  In every call of learn and of
\* evaluate made by the loop, on n examples, the weights passed have shape
\* (num_features, 1), the predictions and the labels both have shape
\* (n, 1), and so has their difference (n entries, not n by n); what learn
\* returns has the shape of the weights again.  (The calls are looked at
\* at every point of the loop, the point after its last iteration included.)
C13_ShapesKept ==
    LET num_features == ImgSide * ImgSide IN
    /\ Past2("reshape") => NCols(x_train) = num_features
    /\ Past2("batch") => Shape(y_train_batch) = <<batch_size, 1>>
    /\ (Past2("train") /\ ~Past2("init_softmax_model")) =>
          Shape(W) = <<num_features, 1>>
    /\ pc2 = "loop" => \A k \in 1..Len(calls) :
          LET n == NRows(calls[k].input_images)
              predictions == linear_model(calls[k].current_W,
                                          calls[k].input_images)
              labels == calls[k].true_labels
          IN  /\ n = batch_size
              /\ Shape(calls[k].input_images) = <<n, num_features>>
              /\ Shape(calls[k].current_W) = <<num_features, 1>>
              /\ Shape(predictions) = <<n, 1>>
              /\ Shape(labels) = <<n, 1>>
              /\ calls[k].fn = "learn" =>
                    /\ Shape(ArrSub(predictions, labels)) = <<n, 1>>
                    /\ Shape(returns[k].value) = <<num_features, 1>>
              /\ calls[k].fn = "evaluate" =>
                    Shape(ArrSub(labels, predictions)) = <<n, 1>>

\* the loop has made all its calls, on more than one example and more than
\* one feature, so that (n, 1), (n, n) and (num_features, 1) differ
C13_Witness ==
    /\ Past2("loop")
    /\ Len(calls) = 2 * num_iters
    /\ NRows(calls[1].input_images) > 1
    /\ NRows(calls[1].input_images) # NRows(W)
    /\ Shape(W) = <<NCols(x_train), 1>>
    /\ W # calls[1].current_W

Nudge(w, k, h) == [w EXCEPT ![k] = <<FAdd(w[k][1], h)>>]

\* dJ/dW_k at w, for J(W) = evaluate(W, X, y).  J is a polynomial of degree 2
\* in W_k, for which the central difference quotient is the derivative.
PartialOfLoss(X, y, w, k) ==
    FDiv(FSub(evaluate(Nudge(w, k, One), X, y),
              evaluate(Nudge(w, k, FNeg(One)), X, y)),
         Int2F(2))

\* the k-th entry of (2/n) * X^T (XW - y), written out as sums
ClosedFormGradient(X, y, w, k) ==
    FMul(Q(2, Len(X)),
         SumSeq(Arr([r \in 1..Len(X) |->
            FMul(X[r][k],
                 FSub(SumSeq(Arr([c \in 1..Len(w) |-> FMul(X[r][c], w[c][1])])),
                      y[r][1]))])))

\* C7: learn returns W - learning_rate * dJ/dW, where J is the loss evaluate
\* computes (the mean over the n examples of (y - XW)^2), and
\* dJ/dW = (2/n) X^T (XW - y): entry by entry, the result is the old weight
\* minus the rate times the partial derivative of evaluate, which equals
\* the closed form.
C7_LearnStepsAgainstGradientOfLoss ==
    (call.fn = "learn" /\ ret # Pending) =>
        LET X == call.input_images
            y == call.true_labels
            w == call.current_W
        IN  /\ Len(ret) = Len(w)
            /\ \A k \in 1..Len(w) :
                  LET dJ == PartialOfLoss(X, y, w, k) IN
                  /\ ret[k] = <<FSub(w[k][1], FMul(call.learning_rate, dJ))>>
                  /\ dJ = ClosedFormGradient(X, y, w, k)

\* a call on two examples whose step changes the weights
C7_Witness ==
    /\ call.fn = "learn" /\ ret # Pending
    /\ Len(call.input_images) = 2
    /\ ret # call.current_W
    /\ \E k \in 1..Len(ret) : FLess(ret[k][1], call.current_W[k][1])
    /\ \E k \in 1..Len(ret) : FLess(call.current_W[k][1], ret[k][1])

\* C9: for every input matrix x, each row of softmax(x) sums to 1 and every
\* entry lies strictly between 0 and 1.
C9_SoftmaxRowsAreDistributions ==
    (call.fn = "softmax" /\ ret # Pending) =>
        \A r \in 1..Len(ret) :
            /\ SumSeq(ret[r]) = One
            /\ \A c \in 1..Len(ret[r]) :
                  /\ IsFinite(ret[r][c])
                  /\ FLess(Zero, ret[r][c])
                  /\ FLess(ret[r][c], One)

\* C10: the sigmoid classification_model(A, b, input_images) returns
\* sigmoid(input_images * A + b), whatever the notebook-level W is.
C10_ClassificationModelUsesA ==
    (call.fn = "classification_model" /\ ret # Pending) =>
        ret = sigmoid(ArrAdd(dot(call.input_images, call.A), AsRow(call.b)))
====
